---- MODULE Spec2Model ----
(***************************************************************************)
(* Model of github_analysis/get_data.py: the collection pipeline main(),   *)
(* the paginator repository_generator(n), the enricher fill_repository and *)
(* its two helpers get_repository_licence and get_repository_regex, and    *)
(* the CSV sink that main() opens, fills and closes.                       *)
(*                                                                         *)
(* The program is sequential.  One action is one externally visible step:  *)
(* the module-level credential load, the opening of the sink, one search   *)
(* request, one licence request, one page fetch, one row write.  An        *)
(* exception raised inside a step unwinds the `with` block of main() in    *)
(* the same step, which closes the sink.                                   *)
(***************************************************************************)
EXTENDS Integers, Sequences, FiniteSets, TLC

(* ------------------------------ bounds --------------------------------- *)
\* largest page budget n handed to repository_generator
MaxPages == 2
\* largest number of entries the search endpoint returns over one run
MaxEntries == 2

(* ----------------------------- sequences ------------------------------- *)
Last(s) == s[Len(s)]

Range(s) == {s[j] : j \in 1..Len(s)}

RECURSIVE Concat(_)
Concat(ss) == IF ss = <<>> THEN <<>> ELSE Head(ss) \o Concat(Tail(ss))

RECURSIVE TotalLen(_)
TotalLen(ss) == IF ss = <<>> THEN 0 ELSE Len(Head(ss)) + TotalLen(Tail(ss))

SeqsUpTo(S, m) == UNION {[1..k -> S] : k \in 0..m}

(* --------------------------- search entries ---------------------------- *)
\* One item of the search response (only the keys the program reads, plus
\* one it does not read).
EntryOX ==
  [name |-> "x", owner |-> [login |-> "o"], full_name |-> "o/x",
   stargazers_count |-> 5, forks_count |-> 1, open_issues_count |-> 0,
   watchers_count |-> 5, language |-> "Go",
   created_at |-> "2020-01-01T00:00:00Z", updated_at |-> "2021-01-01T00:00:00Z",
   pushed_at |-> "2021-06-01T00:00:00Z"]

EntryAB ==
  [name |-> "b", owner |-> [login |-> "a"], full_name |-> "a/b",
   stargazers_count |-> 7, forks_count |-> 2, open_issues_count |-> 3,
   watchers_count |-> 7, language |-> "C",
   created_at |-> "2019-01-01T00:00:00Z", updated_at |-> "2019-02-01T00:00:00Z",
   pushed_at |-> "2019-03-01T00:00:00Z"]

\* an item that lacks a key the program reads
EntryNoPushedAt ==
  [name |-> "y", owner |-> [login |-> "o"], full_name |-> "o/y",
   stargazers_count |-> 4, forks_count |-> 0, open_issues_count |-> 0,
   watchers_count |-> 4, language |-> "Go",
   created_at |-> "2018-01-01T00:00:00Z", updated_at |-> "2018-02-01T00:00:00Z"]

Entries == {EntryOX, EntryAB, EntryNoPushedAt}

(* --------------------------- response bodies --------------------------- *)
\* What requests.get(...).text of the search endpoint can be.
SearchBodies(m) ==
  {[kind |-> "transport"], [kind |-> "notjson"], [kind |-> "noitems"]}
    \cup {[kind |-> "items", items |-> s] : s \in SeqsUpTo(Entries, m)}

\* What requests.get(...).text of the license sub-resource can be.
LicenceBodies ==
  { [kind |-> "transport"],                  \* requests.get raises
    [kind |-> "empty"],                      \* ""
    [kind |-> "notjson"],                    \* an HTML error page
    [kind |-> "object", has_license |-> FALSE],                  \* {"message": "Not Found"}
    [kind |-> "object", has_license |-> TRUE, license |-> [kind |-> "null"]],
    [kind |-> "object", has_license |-> TRUE,
       license |-> [kind |-> "object", has_name |-> FALSE]],
    [kind |-> "object", has_license |-> TRUE,
       license |-> [kind |-> "object", has_name |-> TRUE, name |-> "MIT"]] }

\* Text of one <span class="num text-emphasized"> badge, as characters.
Digits == {"0", "1", "2", "3", "4", "5", "6", "7", "8", "9"}

B10 == <<" ", "1", "0", " ">>
B2 == <<" ", "2", " ">>
B3 == <<" ", "3", " ">>
B4 == <<" ", "4", " ">>
B4c321 == <<" ", "4", ",", "3", "2", "1", " ">>

\* The rendered repository page: whether it has <li class="commits"> and the
\* badges that follow it, in page order.
Sites ==
  { [kind |-> "transport"],
    [kind |-> "page", commits_li |-> FALSE, badges |-> <<B10, B2, B3, B4>>],
    [kind |-> "page", commits_li |-> TRUE, badges |-> <<B10, B2, B3>>],
    [kind |-> "page", commits_li |-> TRUE, badges |-> <<B10, B2, B3, B4>>],
    [kind |-> "page", commits_li |-> TRUE, badges |-> <<B10, B2, B3, B4, B2>>],
    [kind |-> "page", commits_li |-> TRUE, badges |-> <<B10, B2, B3, B4c321>>] }

NoResp == [kind |-> "none"]

(* ------------------------------ results -------------------------------- *)
Ok(v) == [ok |-> TRUE, value |-> v]
Raise(e) == [ok |-> FALSE, error |-> e]

(* ------------------------ get_repository_regex ------------------------- *)
DigitVal(c) ==
  CASE c = "0" -> 0 [] c = "1" -> 1 [] c = "2" -> 2 [] c = "3" -> 3 [] c = "4" -> 4
    [] c = "5" -> 5 [] c = "6" -> 6 [] c = "7" -> 7 [] c = "8" -> 8 [] c = "9" -> 9

\* int(s) of a string of decimal digits
RECURSIVE int(_)
int(s) == IF s = <<>> THEN 0
          ELSE 10 * int(SubSeq(s, 1, Len(s) - 1)) + DigitVal(Last(s))

\* The group (\d+) after a lazy .*? : the first maximal run of digits.
Group(t) ==
  LET b == CHOOSE q \in 1..Len(t) :
             t[q] \in Digits /\ \A r \in 1..(q - 1) : t[r] \notin Digits
      e == CHOOSE q \in b..Len(t) :
             /\ \A r \in b..q : t[r] \in Digits
             /\ (q = Len(t) \/ t[q + 1] \notin Digits)
  IN SubSeq(t, b, e)

\* regex_cbrcl.findall(site): the match tuples, first match first.  The
\* pattern needs <li class="commits"> followed by four badges.
findall(site) ==
  IF site.commits_li /\ Len(site.badges) >= 4
  THEN << <<Group(site.badges[1]), Group(site.badges[2]),
            Group(site.badges[3]), Group(site.badges[4])>> >>
  ELSE <<>>

\* The dict built from the first match tuple (0-based cbrc[0..3] is 1..4 here).
StatsOf(cbrc) ==
  [commit_count |-> int(cbrc[1]),
   branch_count |-> int(cbrc[2]),
   release_count |-> int(cbrc[4]),
   contributor_count |-> int(cbrc[3])]

get_repository_regex(site) ==
  IF site.kind = "transport" THEN Raise("ConnectionError")
  ELSE IF findall(site) = <<>> THEN Raise("IndexError")
  ELSE Ok(StatsOf(findall(site)[1]))

(* ----------------------- get_repository_licence ------------------------ *)
get_repository_licence(body) ==
  IF body.kind = "transport" THEN Raise("ConnectionError")
  ELSE IF body.kind \in {"empty", "notjson"} THEN Raise("JSONDecodeError")
  ELSE IF ~body.has_license THEN Ok("None")
  ELSE IF body.license.kind = "null" THEN Raise("TypeError")
  ELSE IF body.license.has_name THEN Ok(body.license.name)
  ELSE Ok("None")

(* --------------------------- fill_repository --------------------------- *)
\* {**a, **b}: the later source wins on a shared key
Merge(a, b) ==
  [k \in DOMAIN a \cup DOMAIN b |-> IF k \in DOMAIN b THEN b[k] ELSE a[k]]

\* Project with the watchers_count column of the other schema variant
ProjectWithWatchers(data) ==
  [name |-> data.name,
   owner |-> data.owner.login,
   stargazers_count |-> data.stargazers_count,
   watchers_count |-> data.watchers_count,
   forks_count |-> data.forks_count,
   open_issues_count |-> data.open_issues_count,
   language |-> data.language,
   created_at |-> data.created_at,
   updated_at |-> data.updated_at,
   pushed_at |-> data.pushed_at]

\* the dict literal `result` of fill_repository
Project(data) ==
  [name |-> data.name,
   owner |-> data.owner.login,
   stargazers_count |-> data.stargazers_count,
   forks_count |-> data.forks_count,
   open_issues_count |-> data.open_issues_count,
   language |-> data.language,
   created_at |-> data.created_at,
   updated_at |-> data.updated_at,
   pushed_at |-> data.pushed_at]

\* the keys fill_repository subscripts its argument with
ReadKeys ==
  {"name", "owner", "stargazers_count", "forks_count", "open_issues_count",
   "language", "created_at", "updated_at", "pushed_at", "full_name"}

\* the repository both sub-requests of fill_repository are made for
LicenceTarget(data) == data.full_name

\* RegexTarget addressing the page by the bare repository name
RegexTargetName(data) == data.name

RegexTarget(data) == data.full_name

(* ------------------------- repository_generator ------------------------ *)
\* json.loads(site)["items"]
ParseSearch(body) ==
  IF body.kind = "transport" THEN Raise("ConnectionError")
  ELSE IF body.kind = "notjson" THEN Raise("JSONDecodeError")
  ELSE IF body.kind = "noitems" THEN Raise("KeyError")
  ELSE Ok(body.items)

\* RangeDone for range(1, n)
RangeDoneEarly(page, budget) == page >= budget

\* range(1, n+1) is used up
RangeDone(page, budget) == page > budget

(* ------------------------------ the sink ------------------------------- *)
fieldnames ==
  <<"owner", "name", "language", "stargazers_count", "commit_count",
    "branch_count", "release_count", "open_issues_count", "contributor_count",
    "forks_count", "license", "created_at", "pushed_at", "updated_at">>

\* DictWriter: the values of a dict in column order, '' for a missing key
Line(rec) ==
  [c \in 1..Len(fieldnames) |->
     IF fieldnames[c] \in DOMAIN rec THEN rec[fieldnames[c]] ELSE ""]

Lines(recs) == [j \in 1..Len(recs) |-> Line(recs[j])]

StaleLine == <<"stale">>

\* OpenFile in append mode
OpenFileAppend(file) == [open |-> TRUE, disk |-> file.disk, buf |-> <<>>]

\* open(CSV_FILENAME, 'w'): the file is truncated
OpenFile(file) == [open |-> TRUE, disk |-> <<>>, buf |-> <<>>]

\* WriteFile that skips a line the file already holds
WriteFileDedup(file, line, flush) ==
  IF line \in Range(file.disk \o file.buf) THEN file
  ELSE IF flush THEN [file EXCEPT !.disk = file.disk \o file.buf \o <<line>>, !.buf = <<>>]
  ELSE [file EXCEPT !.buf = Append(file.buf, line)]

\* a write goes to the buffer; the buffer may be flushed by it
WriteFile(file, line, flush) ==
  IF flush THEN [file EXCEPT !.disk = file.disk \o file.buf \o <<line>>, !.buf = <<>>]
  ELSE [file EXCEPT !.buf = Append(file.buf, line)]

\* CloseFile without scoped acquisition: the file is left as it is
CloseFileLeak(file) == file

\* leaving the `with` block: flush and close
CloseFile(file) == [open |-> FALSE, disk |-> file.disk \o file.buf, buf |-> <<>>]

(* ---------------------------- credentials ------------------------------ *)
\* The file `credentials`: absent, or its stripped text split at ":".
CredentialFiles ==
  {[exists |-> FALSE, parts |-> 0]} \cup {[exists |-> TRUE, parts |-> k] : k \in 1..3}

(* ------------------------------- state --------------------------------- *)
VARIABLES
  credentials,      \* the credentials file on disk
  pc,               \* position of the program
  err,              \* the exception that ended the run, "none" if none
  n,                \* page budget of repository_generator
  i,                \* page number of the generator's loop
  repository_list,  \* entries of the current page not yet yielded
  repository,       \* the dict fill_repository is building / has returned
  f,                \* the sink file
  resp,             \* body of the last response received
  received,         \* history: the items lists of the pages received
  yielded,          \* history: the entries yielded by the generator
  records,          \* history: the records returned by fill_repository
  log               \* history: requests, yields and sink writes, in order

vars == <<credentials, pc, err, n, i, repository_list, repository, f, resp,
          received, yielded, records, log>>

Event(kind, page, repo, ok) == [kind |-> kind, page |-> page, repo |-> repo, ok |-> ok]

NoRecord == [none |-> TRUE]

Init ==
  /\ credentials \in CredentialFiles
  /\ pc = "import"
  /\ err = "none"
  /\ n \in 1..MaxPages
  /\ i = 1
  /\ repository_list = <<>>
  /\ repository = NoRecord
  /\ f \in {[open |-> FALSE, disk |-> d, buf |-> <<>>] : d \in {<<>>, <<StaleLine>>}}
  /\ resp = NoResp
  /\ received = <<>>
  /\ yielded = <<>>
  /\ records = <<>>
  /\ log = <<>>

\* Unwind that swallows the exception and goes on with the loop
UnwindSwallow(e) ==
  /\ pc' = "generator"
  /\ err' = err
  /\ f' = f

\* An exception leaves main(): the `with` block closes the sink on the way.
Unwind(e) ==
  /\ pc' = "aborted"
  /\ err' = e
  /\ f' = CloseFile(f)

\* line 22, run when the module is loaded
LoadCredentials ==
  /\ pc = "import"
  /\ IF ~credentials.exists
       THEN pc' = "crashed" /\ err' = "FileNotFoundError"
       ELSE IF credentials.parts # 2
         THEN pc' = "crashed" /\ err' = "ValueError"
         ELSE pc' = "main" /\ err' = err
  /\ UNCHANGED <<credentials, n, i, repository_list, repository, f, resp,
                 received, yielded, records, log>>

\* main(): open the sink and write the header
OpenSink ==
  /\ pc = "main"
  /\ \E flush \in BOOLEAN : f' = WriteFile(OpenFile(f), fieldnames, flush)
  /\ log' = Append(log, Event("header", 0, "", TRUE))
  /\ pc' = "generator"
  /\ UNCHANGED <<credentials, err, n, i, repository_list, repository, resp,
                 received, yielded, records>>

\* repository_generator: the request of page i
Search ==
  /\ pc = "generator"
  /\ repository_list = <<>>
  /\ ~RangeDone(i, n)
  /\ \E body \in SearchBodies(MaxEntries - Len(yielded)) :
       LET r == ParseSearch(body) IN
       /\ resp' = body
       /\ log' = Append(log, Event("search", i, "", r.ok))
       /\ IF r.ok
            THEN /\ repository_list' = r.value
                 /\ received' = Append(received, r.value)
                 /\ i' = i + 1
                 /\ UNCHANGED <<pc, err, f>>
            ELSE /\ Unwind(r.error)
                 /\ UNCHANGED <<repository_list, received, i>>
  /\ UNCHANGED <<credentials, n, repository, yielded, records>>

\* repository_generator returns: the loop of main() ends, the sink is closed
Exhausted ==
  /\ pc = "generator"
  /\ repository_list = <<>>
  /\ RangeDone(i, n)
  /\ pc' = "done"
  /\ f' = CloseFile(f)
  /\ UNCHANGED <<credentials, err, n, i, repository_list, repository, resp,
                 received, yielded, records, log>>

\* the generator yields p; fill_repository(p) up to the licence lookup
Licence ==
  /\ pc = "generator"
  /\ repository_list # <<>>
  /\ LET data == Head(repository_list) IN
     /\ yielded' = Append(yielded, data)
     /\ repository_list' = Tail(repository_list)
     /\ IF ~(ReadKeys \subseteq DOMAIN data)
          THEN /\ Unwind("KeyError")
               /\ log' = Append(log, Event("yield", 0, "", TRUE))
               /\ UNCHANGED <<repository, resp>>
          ELSE \E body \in LicenceBodies :
                 LET r == get_repository_licence(body) IN
                 /\ resp' = body
                 /\ log' = log \o <<Event("yield", 0, "", TRUE),
                                   Event("licence", 0, LicenceTarget(data), r.ok)>>
                 /\ IF r.ok
                      THEN /\ repository' = Merge(Project(data), [license |-> r.value])
                           /\ pc' = "regex"
                           /\ UNCHANGED <<err, f>>
                      ELSE /\ Unwind(r.error)
                           /\ UNCHANGED repository
  /\ UNCHANGED <<credentials, n, i, received, records>>

\* fill_repository: the page fetch, the merge and the return
Regex ==
  /\ pc = "regex"
  /\ \E site \in Sites :
       LET r == get_repository_regex(site) IN
       /\ resp' = site
       /\ log' = Append(log, Event("html", 0, RegexTarget(Last(yielded)), r.ok))
       /\ IF r.ok
            THEN /\ repository' = Merge(repository, r.value)
                 /\ records' = Append(records, repository')
                 /\ pc' = "write"
                 /\ UNCHANGED <<err, f>>
            ELSE /\ Unwind(r.error)
                 /\ UNCHANGED <<repository, records>>
  /\ UNCHANGED <<credentials, n, i, repository_list, received, yielded>>

\* writer.writerow(repository)
WriteRow ==
  /\ pc = "write"
  /\ IF DOMAIN repository \subseteq Range(fieldnames)
       THEN /\ \E flush \in BOOLEAN : f' = WriteFile(f, Line(repository), flush)
            /\ log' = Append(log, Event("row", 0, "", TRUE))
            /\ pc' = "generator"
            /\ err' = err
       ELSE /\ Unwind("ValueError")
            /\ log' = log
  /\ resp' = NoResp
  /\ repository' = NoRecord
  /\ UNCHANGED <<credentials, n, i, repository_list, received, yielded, records>>

Next ==
  \/ LoadCredentials
  \/ OpenSink
  \/ Search
  \/ Exhausted
  \/ Licence
  \/ Regex
  \/ WriteRow

Spec == Init /\ [][Next]_vars

(* ======================= properties of the program ===================== *)
\* everything written to the sink so far, flushed or not
Written == f.disk \o f.buf

\* number of events of the given kind in the log
Count(kind) == Cardinality({q \in 1..Len(log) : log[q].kind = kind})

\* number of rows written to the sink so far
RowsWritten == Len(Written) - 1

Searches == SelectSeq(log, LAMBDA e : e.kind = "search")

NetCalls == SelectSeq(log, LAMBDA e : e.kind \in {"licence", "html"})

\* record r carries the projected fields of entry e unchanged
RecordOf(e, r) ==
  /\ DOMAIN Project(e) \subseteq DOMAIN r
  /\ \A k \in DOMAIN Project(e) : r[k] = Project(e)[k]

\* the run was ended by a failure of the enrichment of the last yielded
\* entry: fill_repository was entered for it and returned no record
EnrichFailed ==
  /\ pc = "aborted"
  /\ Len(yielded) > Len(records)

\* the run was ended by a failure of a search request
SearchFailed ==
  /\ pc = "aborted"
  /\ log # <<>>
  /\ Last(log).kind = "search"
  /\ ~Last(log).ok

\* C1: if the enrichment of the k-th yielded entry fails, the run has stopped
\* with the sink closed and holding exactly the header followed by the
\* records of entries 1..k-1, in order, and nothing of entry k.
C1_FailedEnrichmentLeavesPrefix ==
  EnrichFailed =>
    /\ ~f.open
    /\ f.buf = <<>>
    /\ Len(records) = Len(yielded) - 1
    /\ f.disk = <<fieldnames>> \o Lines(records)
    /\ \A j \in 1..Len(records) : RecordOf(yielded[j], records[j])

C1_Witness == EnrichFailed /\ Len(yielded) = 2 /\ Len(f.disk) = 2

\* C2: when the first match-set of the page carries the badge numbers b1, b2,
\* b3, b4 in page order (commits, contributors, branches, releases), the
\* record gets commit_count = b1, contributor_count = b2, branch_count = b3
\* and release_count = b4.
C2_BadgesInPageOrder ==
  (pc = "write" /\ resp.kind = "page") =>
    LET b == findall(resp)[1] IN
    /\ repository.commit_count = int(b[1])
    /\ repository.contributor_count = int(b[2])
    /\ repository.branch_count = int(b[3])
    /\ repository.release_count = int(b[4])

\* the name the license response carries, "None" when it carries none
NameIn(body) ==
  IF body.kind = "object" /\ body.has_license /\ body.license.kind = "object"
     /\ body.license.has_name
  THEN body.license.name
  ELSE "None"

\* C3: for every license response delivered without a transport failure (an
\* empty body, a body without `license`, a `license` that is null or has no
\* name, a `license` with a name) the lookup returns the name when present
\* and "None" otherwise, and raises nothing.
C3_LicenceNeverRaisesOnDeliveredBody ==
  (log # <<>> /\ Last(log).kind = "licence" /\ resp.kind \in {"empty", "object"}) =>
    /\ Last(log).ok
    /\ pc = "regex"
    /\ repository.license = NameIn(resp)

\* C4: a generator consumed to exhaustion without failure has issued exactly
\* n search requests, for the pages 1..n in ascending order, and has yielded
\* the concatenation of the pages' items; and whenever the request of a page
\* has just been issued, exactly the entries of the pages before it have been
\* yielded.
C4_PagesInOrderAndLazy ==
  /\ (log # <<>> /\ Last(log).kind = "search") =>
       /\ Last(log).page = Count("search")
       /\ Len(yielded) = TotalLen(SubSeq(received, 1, Last(log).page - 1))
  /\ Len(yielded) = Count("yield")
  /\ Len(yielded) <= TotalLen(received)
  /\ yielded = SubSeq(Concat(received), 1, Len(yielded))
  /\ pc = "done" =>
       /\ Len(Searches) = n
       /\ \A j \in 1..n : Searches[j].page = j /\ Searches[j].ok
       /\ Len(received) = n
       /\ yielded = Concat(received)

C4_Witness ==
  /\ pc = "done"
  /\ n = 2
  /\ Len(received[1]) = 1
  /\ Len(received[2]) = 1
  /\ received[1][1] # received[2][1]

\* C5: at every point the rows in the sink are the records of a prefix of the
\* yielded entries, in order, one row per entry; at most one yielded entry has
\* no row yet; and whenever a search request or the first request of an entry
\* has just been issued, every entry yielded before has its row.
C5_RowsFollowEntries ==
  log # <<>> =>
    /\ Written = <<fieldnames>> \o Lines(SubSeq(records, 1, RowsWritten))
    /\ RowsWritten = Count("row")
    /\ Len(records) <= Len(yielded)
    /\ Len(yielded) - 1 <= RowsWritten
    /\ RowsWritten <= Len(records)
    /\ \A j \in 1..Len(records) : RecordOf(yielded[j], records[j])
    /\ Last(log).kind = "search" => RowsWritten = Len(yielded)
    /\ Last(log).kind \in {"yield", "licence"} => RowsWritten = Len(yielded) - 1

C5_Witness ==
  /\ Len(Written) = 3
  /\ records[1] = records[2]
  /\ yielded[1] = yielded[2]
  /\ pc = "generator"

\* C6: a failed request is the last thing the run does: nothing is requested
\* or written after it, the run is over, the rows written before it are in
\* the file; and in every terminal state of main(), normal or not, the sink
\* is closed with everything written to it on disk.
C6_FailureEndsRunSinkClosed ==
  /\ \A q \in 1..Len(log) : ~log[q].ok => (q = Len(log) /\ pc = "aborted")
  /\ pc = "aborted" => (~Last(log).ok \/ err = "KeyError")
  /\ (err # "none") = (pc \in {"aborted", "crashed"})
  /\ pc \in {"aborted", "done"} =>
       /\ ~f.open
       /\ f.buf = <<>>
       /\ Len(f.disk) - 1 = Count("row")
       /\ f.disk = <<fieldnames>> \o Lines(SubSeq(records, 1, Len(f.disk) - 1))
       /\ ~ENABLED Next
  /\ pc \notin {"aborted", "done", "import", "main", "crashed"} => f.open

C6_Witness ==
  /\ pc = "aborted"
  /\ ~Last(log).ok
  /\ Last(log).kind = "html"
  /\ Len(f.disk) = 2

\* C7: with the credential file absent the process does not crash.
C7_NoCrashWithoutCredentials ==
  ~credentials.exists => pc # "crashed"

\* C8: every entry's enrichment issues the licence lookup and then the page
\* fetch, both for the entry's full_name and next to each other, once each;
\* the page fetch is issued only after a successful licence lookup; and one
\* record is returned per successful page fetch.
C8_TwoCallsPerEntry ==
  /\ Len(NetCalls) \in {2 * Len(yielded), 2 * Len(yielded) - 1}
       \/ (err = "KeyError" /\ Len(NetCalls) = 2 * Len(yielded) - 2)
  /\ \A q \in 1..Len(NetCalls) :
       IF q % 2 = 1
       THEN /\ NetCalls[q].kind = "licence"
            /\ NetCalls[q].repo = yielded[(q + 1) \div 2].full_name
       ELSE /\ NetCalls[q].kind = "html"
            /\ NetCalls[q].repo = yielded[q \div 2].full_name
            /\ NetCalls[q - 1].ok
  /\ \A q \in 1..(Len(log) - 1) :
       (log[q].kind = "licence" /\ log[q].ok) => log[q + 1].kind = "html"
  /\ Len(records) = Len(SelectSeq(log, LAMBDA e : e.kind = "html" /\ e.ok))

C8_Witness ==
  /\ Len(records) = 1
  /\ Len(yielded) = 2
  /\ yielded[1] # yielded[2]
  /\ Len(NetCalls) = 3
  /\ ~Last(log).ok

\* the keys the page fetch contributes
StatsFields == DOMAIN StatsOf(<< <<"0">>, <<"0">>, <<"0">>, <<"0">> >>)

\* C9: in every record returned by fill_repository the keys of the three
\* sources are pairwise disjoint, the merge has overwritten nothing, and the
\* keys are exactly the columns of the header, each column once.
C9_NoFieldCollision ==
  pc = "write" =>
    LET P == DOMAIN Project(Last(yielded)) IN
    /\ P \cap {"license"} = {}
    /\ P \cap StatsFields = {}
    /\ StatsFields \cap {"license"} = {}
    /\ DOMAIN repository = P \cup {"license"} \cup StatsFields
    /\ DOMAIN repository = Range(fieldnames)
    /\ Cardinality(Range(fieldnames)) = Len(fieldnames)
    /\ RecordOf(Last(yielded), repository)
    /\ \A k \in StatsFields : repository[k] = get_repository_regex(resp).value[k]
    /\ repository = Last(records)

C9_Witness == pc = "write" /\ repository.license = "MIT"

\* C10: the header is the first thing the run writes or requests, the file
\* then holds nothing of an earlier run, and when the request of page j fails
\* the closed file holds the header and exactly one row per entry of the
\* pages 1..j-1.
C10_HeaderFirstPageFailureKeepsEarlierPages ==
  /\ log # <<>> =>
       /\ log[1].kind = "header"
       /\ Written[1] = fieldnames
       /\ StaleLine \notin Range(Written)
  /\ SearchFailed =>
       /\ Len(received) = Last(log).page - 1
       /\ ~f.open
       /\ f.disk = <<fieldnames>> \o Lines(records)
       /\ Len(records) = TotalLen(received)
       /\ \A j \in 1..Len(records) : RecordOf(Concat(received)[j], records[j])

C10_Witness ==
  /\ SearchFailed
  /\ Last(log).page = 2
  /\ Len(f.disk) = 3
====
